---------------------------- MODULE Spec2Model ----------------------------
(***************************************************************************)
(* A model of src/main.py: the Student / Teacher / Course records with     *)
(* their field validators, the SQLite-backed tables, and the fifteen       *)
(* FastAPI request handlers.                                               *)
(*                                                                         *)
(* Representation.  A Python str whose characters matter to a validator    *)
(* (regular expressions, isdigit, split, int) is a sequence of Unicode     *)
(* code points.  A str that is only ever compared for membership in a      *)
(* fixed list (city, department, major, marital status) is a TLA+ string   *)
(* holding a Latin transliteration of the Persian literal of the source.   *)
(* A request payload is a function from field names to values; a row is a  *)
(* payload defined on every field of its class.                            *)
(***************************************************************************)
EXTENDS Integers, Sequences, FiniteSets, TLC

VARIABLES
    db,       \* the three tables of database.db: table name -> set of rows
    req,      \* the request being answered (op, res, key, payload, offset, limit)
    resp,     \* its response (status, body)
    gone,     \* history: <<res, key>> deleted with {"ok": true} and not created since
    pc,       \* per worker thread: position inside delete_student
    found,    \* per worker thread: the row session.get returned
    wkey,     \* per worker thread: the path key of its request
    acks,     \* history: number of {"ok": true} answers of DELETE
    removed,  \* history: number of rows DELETE statements removed
    bd_in,    \* input of Person.validate_birth_date
    bd_out    \* message it raised ("pending" before the call)

vars == <<db, req, resp, gone, pc, found, wkey, acks, removed, bd_in, bd_out>>

None == "None"

\* The key of a request that addresses no key.
NoKey == <<>>

(***************************************************************************)
(* Characters and the str methods the validators call                      *)
(***************************************************************************)

\* str.isdigit on one character, for code points below U+0700.
IsDigitChar(c) ==
    \/ c \in 48..57
    \/ c \in {178, 179, 185}
    \/ c \in 1632..1641
    \/ c \in 1776..1785

\* The characters re's \d and int() take as decimal digits (category Nd),
\* for code points below U+0700.
IsDecimalChar(c) ==
    \/ c \in 48..57
    \/ c \in 1632..1641
    \/ c \in 1776..1785

DigitValue(c) ==
    IF c \in 48..57 THEN c - 48
    ELSE IF c \in 1632..1641 THEN c - 1632
    ELSE c - 1776

\* re's \s and str.strip's whitespace, for code points below U+0700.
IsSpaceChar(c) == c \in {9, 10, 11, 12, 13, 28, 29, 30, 31, 32, 133, 160}

\* v.isdigit(): every character a digit and at least one character.
isdigit(v) == Len(v) > 0 /\ \A i \in 1..Len(v) : IsDigitChar(v[i])

\* v.startswith(p)
startswith(v, p) == Len(v) >= Len(p) /\ SubSeq(v, 1, Len(p)) = p

\* sub in s, for two str: sub occurs in s as a contiguous substring.
str_in(sub, s) ==
    \E i \in 0..(Len(s) - Len(sub)) : SubSeq(s, i + 1, i + Len(sub)) = sub

\* re.match(r'^[\u0600-\u06FF\s]+$', v): one or more characters, each of the
\* Arabic block or whitespace ("$" may stand before a final newline, which
\* the class matches anyway).
re_persian(v) ==
    /\ Len(v) > 0
    /\ \A i \in 1..Len(v) : v[i] \in 1536..1791 \/ IsSpaceChar(v[i])

\* What "$" lets a pattern match against: v itself, or v without one final "\n".
DollarCores(v) ==
    {v} \cup (IF Len(v) > 0 /\ v[Len(v)] = 10 THEN {SubSeq(v, 1, Len(v) - 1)} ELSE {})

\* re.match(r'^09\d{9}$', v)
re_cphone(v) ==
    \E w \in DollarCores(v) :
        /\ Len(w) = 11
        /\ w[1] = 48
        /\ w[2] = 57
        /\ \A i \in 3..11 : IsDecimalChar(w[i])

\* re.match(r'^0\d{2,3}\d{8}$', v)
re_hphone(v) ==
    \E w \in DollarCores(v) :
        /\ Len(w) \in {11, 12}
        /\ w[1] = 48
        /\ \A i \in 2..Len(w) : IsDecimalChar(w[i])

\* re.fullmatch(r'[U+0622-U+06CC\s]{1,25}', v)
re_cname(v) ==
    /\ Len(v) \in 1..25
    /\ \A i \in 1..Len(v) : v[i] \in 1570..1740 \/ IsSpaceChar(v[i])

\* v.split(sep) for a one-character separator: the list of the pieces.
RECURSIVE split(_, _)
split(v, sep) ==
    IF \A i \in 1..Len(v) : v[i] # sep
    THEN <<v>>
    ELSE LET i == CHOOSE j \in 1..Len(v) :
                      v[j] = sep /\ \A k \in 1..(j - 1) : v[k] # sep
         IN  <<SubSeq(v, 1, i - 1)>> \o split(SubSeq(v, i + 1, Len(v)), sep)

\* str.strip(): without the leading and the trailing whitespace.
RECURSIVE strip(_)
strip(v) ==
    IF Len(v) > 0 /\ IsSpaceChar(v[1]) THEN strip(Tail(v))
    ELSE IF Len(v) > 0 /\ IsSpaceChar(v[Len(v)]) THEN strip(SubSeq(v, 1, Len(v) - 1))
    ELSE v

\* The value of a run of decimal digits.
RECURSIVE DigitsValue(_)
DigitsValue(d) ==
    IF Len(d) = 0 THEN 0
    ELSE 10 * DigitsValue(SubSeq(d, 1, Len(d) - 1)) + DigitValue(d[Len(d)])

\* int(s) for a str: surrounding whitespace, an optional sign, then decimal
\* digits with single underscores between them.  ok = FALSE is ValueError.
int_of(s) ==
    LET t      == strip(s)
        signed == Len(t) > 0 /\ t[1] \in {43, 45}
        body   == IF signed THEN Tail(t) ELSE t
        digits == SelectSeq(body, LAMBDA c : c # 95)
        wellformed ==
            /\ Len(body) > 0
            /\ \A i \in 1..Len(body) : IsDecimalChar(body[i]) \/ body[i] = 95
            /\ body[1] # 95
            /\ body[Len(body)] # 95
            /\ \A i \in 1..(Len(body) - 1) : ~(body[i] = 95 /\ body[i + 1] = 95)
    IN  IF ~wellformed THEN [ok |-> FALSE, val |-> 0]
        ELSE [ok |-> TRUE,
              val |-> IF signed /\ t[1] = 45 THEN 0 - DigitsValue(digits)
                      ELSE DigitsValue(digits)]

(***************************************************************************)
(* Person.validate_birth_date                                              *)
(***************************************************************************)

\* The exception raised inside the try block of validate_birth_date, by the
\* statement that raises it: "unpack" (not three pieces), "int" (a piece
\* int() refuses), "range" (the explicit raise of line 49), or "none".
birth_date_try(v) ==
    LET parts == split(v, 47)
    IN  IF Len(parts) # 3
        THEN IF \E i \in 1..Len(parts) : i <= 3 /\ ~int_of(parts[i]).ok
             THEN "int" ELSE "unpack"
        ELSE IF \E i \in 1..3 : ~int_of(parts[i]).ok THEN "int"
        ELSE LET year  == int_of(parts[1]).val
                 month == int_of(parts[2]).val
                 day   == int_of(parts[3]).val
             IN  IF ~(1300 <= year /\ year <= 1400 /\ 1 <= month /\ month <= 12
                      /\ 1 <= day /\ day <= 31)
                 THEN "range" ELSE "none"

\* The handler of the try block: "except:" names no exception class, so it
\* catches every exception of the block, the ValueError of line 49 included,
\* and raises the format message in its place.
birth_date_except(raised) ==
    IF raised = "none" THEN "ok" ELSE "format_error"

\* The message validate_birth_date surfaces for a str input: "ok" when it
\* returns v, else the message of the ValueError that leaves the function.
validate_birth_date(v) == birth_date_except(birth_date_try(v))

(***************************************************************************)
(* The fixed lists of the validators (transliterated)                      *)
(***************************************************************************)

\* validate_born_city: the 31 provincial capitals.
cities ==
    {"tehran", "mashhad", "esfahan", "karaj", "shiraz", "tabriz", "qom", "ahvaz",
     "kermanshah", "orumiyeh", "rasht", "zahedan", "hamedan", "kerman", "yazd",
     "ardabil", "bandar_abbas", "arak", "eslamshahr", "zanjan", "sanandaj",
     "qazvin", "khorramabad", "gorgan", "sari", "bojnurd", "bushehr", "birjand",
     "ilam", "shahrekord", "yasuj"}

departments == {"fanni_mohandesi", "olum_paye", "eghtesad"}

\* validate_major: department -> its majors.  The economics department and
\* its first major are the same Persian word, hence the same value here.
majors ==
    [fanni_mohandesi |->
        {"mohandesi_computer", "mohandesi_bargh", "mohandesi_mechanic",
         "mohandesi_omran", "mohandesi_sanaye", "mohandesi_shimi",
         "mohandesi_mavad", "mohandesi_havafaza", "mohandesi_naft",
         "mohandesi_memari"},
     olum_paye |->
        {"riazi", "fizik", "shimi", "zist_shenasi", "zamin_shenasi", "amar",
         "olum_computer", "biochimi", "microbiology", "genetic"},
     eghtesad |->
        {"eghtesad", "modiriat_bazargani", "hesabdari", "modiriat_mali",
         "modiriat_sanati", "eghtesad_keshavarzi", "eghtesad_beynolmelal",
         "bankdari", "bimeh", "modiriat_dolati"}]

married_values == {"mojarrad", "moteahel"}

\* validate_ids_letter: the str persian_letters (34 characters: the word
\* "alef" spelled out, then the letters from beh on).
persian_letters ==
    <<1575, 1604, 1601, 1576, 1662, 1578, 1579, 1580, 1670, 1581, 1582, 1583,
      1584, 1585, 1586, 1688, 1587, 1588, 1589, 1590, 1591, 1592, 1593, 1594,
      1601, 1602, 1705, 1711, 1604, 1605, 1606, 1608, 1607, 1740>>

\* validate_stid: the literal "403114150".
stid_prefix == <<52, 48, 51, 49, 49, 52, 49, 53, 48>>

(***************************************************************************)
(* The field validators: TRUE when the validator returns v, FALSE when it  *)
(* raises.  Inputs are str (credit: int), the JSON types the fields        *)
(* declare; the Field(min_length, max_length) constraints are conjoined.   *)
(***************************************************************************)

validate_student_fname(v) == re_persian(v)

validate_student_lname(v) == re_persian(v)

validate_born_city(v) == v \in cities

validate_address(v) == ~(Len(v) > 100 \/ ~re_persian(v))

validate_postal_code(v) == isdigit(v) /\ Len(v) = 10

validate_cphone(v) == re_cphone(v)

validate_hphone(v) == re_hphone(v)

validate_stid(v) ==
    /\ startswith(v, stid_prefix)
    /\ Len(v) = 11
    /\ isdigit(SubSeq(v, 10, Len(v)))

validate_father(v) == re_persian(v)

validate_ids_number(v) == isdigit(v) /\ Len(v) = 6

validate_ids_letter(v) == str_in(v, persian_letters) /\ Len(v) <= 1

validate_ids_code(v) == isdigit(v) /\ Len(v) = 2

validate_department(v) == v \in departments

\* values: the fields validated before major (a function; department is in
\* its domain only if department passed its own validator).
validate_major(v, values) ==
    LET department == IF "department" \in DOMAIN values
                      THEN values["department"] ELSE None
    IN  /\ department \in DOMAIN majors
        /\ v \in majors[department]

validate_married(v) == v \in married_values

validate_id(v) == isdigit(v) /\ Len(v) = 10

validate_lid(v) == ~(~isdigit(v) \/ Len(v) # 6)

validate_national_id(v) == ~(~isdigit(v) \/ Len(v) # 10)

validate_cid(v) == ~(~isdigit(v) \/ Len(v) # 5)

validate_cname(v) == re_cname(v)

\* Mutant of validate_credit: the upper bound is not checked.
validate_credit_NoUpperBound(v) == 1 <= v

validate_credit(v) == 1 <= v /\ v <= 4

(***************************************************************************)
(* The three classes                                                       *)
(***************************************************************************)

Resources == {"Student", "Teacher", "Course"}

PersonFields ==
    <<"fname", "lname", "birth_date", "born_city", "address", "postal_code",
      "cphone", "hphone">>

\* Field declaration order: the inherited fields first.
Fields(cls) ==
    CASE cls = "Student" ->
            PersonFields \o <<"stid", "father", "ids_number", "ids_letter",
                              "ids_code", "department", "major", "married", "id">>
      [] cls = "Teacher" ->
            PersonFields \o <<"lid", "national_id", "department", "major">>
      [] cls = "Course" -> <<"cid", "cname", "department", "credit">>

FieldSet(cls) == {Fields(cls)[i] : i \in 1..Len(Fields(cls))}

\* Field(primary_key=True)
PK(cls) ==
    CASE cls = "Student" -> "stid"
      [] cls = "Teacher" -> "lid"
      [] cls = "Course" -> "cid"

\* Mutant of RequiredFields: every field optional in a request body.
RequiredFields_AllOptional(cls) == {}

\* No field declares a default: every field is required in a request body.
RequiredFields(cls) == FieldSet(cls)

\* No field is declared Optional: every column is NOT NULL.
NotNullColumns(cls) == FieldSet(cls)

\* The validator of field f of class cls applied to v, given the values of
\* the fields already validated.
FieldOK(cls, f, v, values) ==
    CASE f = "fname" -> validate_student_fname(v)
      [] f = "lname" -> validate_student_lname(v)
      [] f = "birth_date" -> validate_birth_date(v) = "ok"
      [] f = "born_city" -> validate_born_city(v)
      [] f = "address" -> validate_address(v)
      [] f = "postal_code" -> validate_postal_code(v)
      [] f = "cphone" -> validate_cphone(v)
      [] f = "hphone" -> validate_hphone(v)
      [] f = "stid" -> validate_stid(v)
      [] f = "father" -> validate_father(v)
      [] f = "ids_number" -> validate_ids_number(v)
      [] f = "ids_letter" -> validate_ids_letter(v)
      [] f = "ids_code" -> validate_ids_code(v)
      [] f = "department" -> validate_department(v)
      [] f = "major" -> validate_major(v, values)
      [] f = "married" -> validate_married(v)
      [] f = "id" -> validate_id(v)
      [] f = "lid" -> validate_lid(v)
      [] f = "national_id" -> validate_national_id(v)
      [] f = "cid" -> validate_cid(v)
      [] f = "cname" -> validate_cname(v)
      [] f = "credit" -> validate_credit(v)

\* Validation of a request body against cls, field by field in declaration
\* order: the fields that fail (missing, or refused by their validator,
\* which sees the fields that passed before it).
RECURSIVE BodyErrorsFrom(_, _, _, _)
BodyErrorsFrom(cls, payload, i, values) ==
    IF i > Len(Fields(cls)) THEN {}
    ELSE LET f == Fields(cls)[i]
         IN  IF f \notin DOMAIN payload
             THEN (IF f \in RequiredFields(cls) THEN {f} ELSE {})
                  \cup BodyErrorsFrom(cls, payload, i + 1, values)
             ELSE IF FieldOK(cls, f, payload[f], values)
             THEN BodyErrorsFrom(cls, payload, i + 1,
                                 [g \in DOMAIN values \cup {f} |->
                                     IF g = f THEN payload[f] ELSE values[g]])
             ELSE {f} \cup BodyErrorsFrom(cls, payload, i + 1, values)

\* extra = "forbid": a key that is no field is an error too.
BodyErrors(cls, payload) ==
    (DOMAIN payload \ FieldSet(cls)) \cup BodyErrorsFrom(cls, payload, 1, <<>>)

(***************************************************************************)
(* The storage engine: one table per class, a set of rows                  *)
(***************************************************************************)

\* session.get(cls, key): SELECT ... WHERE pk = key.  The empty set is
\* Python's None, a singleton the instance found.
session_get(table, cls, key) == {row \in table : row[PK(cls)] = key}

\* Mutant of InsertOK: the primary key is not constrained to be unique.
InsertOK_NoPrimaryKey(table, cls, row) == NotNullColumns(cls) \subseteq DOMAIN row

\* INSERT of one row: refused (IntegrityError) when a column is missing
\* (every column is NOT NULL) or the primary key is already in the table.
InsertOK(table, cls, row) ==
    /\ NotNullColumns(cls) \subseteq DOMAIN row
    /\ \A r \in table : r[PK(cls)] # row[PK(cls)]

\* UPDATE ... SET <every column of new> WHERE pk = old's pk: refused
\* (IntegrityError) when it moves the row onto another row's primary key.
UpdateOK(table, cls, old, new) ==
    \A r \in table \ {old} : r[PK(cls)] # new[PK(cls)]

\* DELETE ... WHERE pk = key: the table afterwards.
sql_delete(table, cls, key) == {r \in table : r[PK(cls)] # key}

\* The rows a DELETE ... WHERE pk = key matches (its rowcount).
delete_rowcount(table, cls, key) == Cardinality(session_get(table, cls, key))

\* Query(le=100) on limit.
limit_le == 100

\* The query parameters FastAPI accepts: limit has an upper bound and no
\* lower bound, offset has no bound.
QueryValid(offset, limit) == limit <= limit_le

\* SELECT ... LIMIT limit OFFSET offset over n rows: how many rows come
\* back.  SQLite reads a negative LIMIT as no limit and a negative OFFSET
\* as 0.
select_count(n, offset, limit) ==
    LET skip  == IF offset < 0 THEN 0 ELSE offset
        avail == IF n > skip THEN n - skip ELSE 0
    IN  IF limit < 0 THEN avail
        ELSE IF limit < avail THEN limit ELSE avail

\* for key, value in data.items(): setattr(db_row, key, value), with
\* validate_assignment = True: each assignment runs the field's validator
\* against the instance's other current values; ok = FALSE when one raises.
RECURSIVE setattr_loop(_, _, _, _)
setattr_loop(cls, row, data, i) ==
    IF i > Len(Fields(cls)) THEN [ok |-> TRUE, row |-> row]
    ELSE LET f == Fields(cls)[i]
         IN  IF f \notin DOMAIN data THEN setattr_loop(cls, row, data, i + 1)
             ELSE IF ~FieldOK(cls, f, data[f],
                              [g \in DOMAIN row \ {f} |-> row[g]])
             THEN [ok |-> FALSE, row |-> row]
             ELSE setattr_loop(cls, [row EXCEPT ![f] = data[f]], data, i + 1)

\* student.dict(exclude_unset=True): the fields the body provided.
dict_exclude_unset(cls, payload) ==
    [f \in DOMAIN payload \cap FieldSet(cls) |-> payload[f]]

(***************************************************************************)
(* Bounds and the inputs the requests are drawn from                       *)
(***************************************************************************)

\* Rows held by the three tables together, at most.
MaxRows == 2

\* Rows of the teachers table in the listing specification, at most.
ListMaxRows == 101

\* DELETE requests answered in the concurrent specification, at most.
MaxDeletes == 3

\* n as len decimal digits (ASCII), zero-padded.
Dec(n, len) == [i \in 1..len |-> 48 + ((n \div (10 ^ (len - i))) % 10)]

\* "YYYY/MM/DD"
DateStr(y, m, d) == Dec(y, 4) \o <<47>> \o Dec(m, 2) \o <<47>> \o Dec(d, 2)

\* The n-th key of class cls: a value its key validator accepts.
KeyOf(cls, n) ==
    CASE cls = "Student" -> stid_prefix \o Dec(n, 2)
      [] cls = "Teacher" -> Dec(100000 + n, 6)
      [] cls = "Course" -> Dec(10000 + n, 5)

\* The keys requests address and payloads carry.
Keys(cls) == {KeyOf(cls, 1), KeyOf(cls, 2)}

PersonSample(variant) ==
    [fname |-> <<1593, 1604, 1740>>,
     lname |-> <<1585, 1590, 1575, 32, 1662, 1608, 1585>>,
     birth_date |-> DateStr(1380, 5, 12),
     born_city |-> "shiraz",
     address |-> IF variant = 1 THEN <<1578, 1607, 1585, 1575, 1606>>
                 ELSE <<1602, 1605, 32, 1576, 1604, 1608, 1575, 1585>>,
     postal_code |-> Dec(1234567890, 10),
     cphone |-> <<48, 57>> \o Dec(123456789, 9),
     hphone |-> <<48>> \o Dec(2112345678, 10)]

\* f extended (or overridden) by g.
Merge(f, g) ==
    [x \in DOMAIN f \cup DOMAIN g |-> IF x \in DOMAIN g THEN g[x] ELSE f[x]]

\* A valid full record of class cls under key.
Sample(cls, key, variant) ==
    CASE cls = "Student" ->
            Merge(PersonSample(variant),
                  [stid |-> key,
                   father |-> <<1581, 1587, 1606>>,
                   ids_number |-> Dec(123456, 6),
                   ids_letter |-> <<1576>>,
                   ids_code |-> Dec(12, 2),
                   department |-> IF variant = 1 THEN "fanni_mohandesi" ELSE "eghtesad",
                   major |-> IF variant = 1 THEN "mohandesi_computer" ELSE "hesabdari",
                   married |-> "mojarrad",
                   id |-> Dec(1234567890, 10)])
      [] cls = "Teacher" ->
            Merge(PersonSample(variant),
                  [lid |-> key,
                   national_id |-> Dec(1234567890, 10),
                   department |-> IF variant = 1 THEN "olum_paye" ELSE "eghtesad",
                   major |-> IF variant = 1 THEN "fizik" ELSE "eghtesad"])
      [] cls = "Course" ->
            [cid |-> key,
             cname |-> <<1585, 1740, 1575, 1590, 1740>>,
             department |-> IF variant = 1 THEN "olum_paye" ELSE "fanni_mohandesi",
             credit |-> IF variant = 1 THEN 3 ELSE 1]

\* Valid full bodies: two that differ in the fields after the key, and one
\* under the other key.
FullPayloads(cls) ==
    {Sample(cls, KeyOf(cls, 1), 1), Sample(cls, KeyOf(cls, 1), 2),
     Sample(cls, KeyOf(cls, 2), 1)}

Base(cls) == Sample(cls, KeyOf(cls, 1), 1)

\* Full bodies with one field a validator refuses.
InvalidPayloads(cls) ==
    CASE cls = "Student" ->
            {[Base(cls) EXCEPT !.major = "hesabdari"],
             [Base(cls) EXCEPT !.stid = stid_prefix \o <<57>>]}
      [] cls = "Teacher" ->
            {[Base(cls) EXCEPT !.major = "mohandesi_bargh"]}
      [] cls = "Course" ->
            {[Base(cls) EXCEPT !.credit = 5],
             [Base(cls) EXCEPT !.cid = Dec(1001, 4)]}

\* Bodies that provide only some fields, each with a value its own
\* validator accepts when the field stands alone.
PartialPayloads(cls) ==
    CASE cls = "Student" ->
            {[address |-> <<1740, 1586, 1583>>], [department |-> "olum_paye"]}
      [] cls = "Teacher" -> {[department |-> "fanni_mohandesi"]}
      [] cls = "Course" -> {[credit |-> 4]}

\* A full body with a key that is no field.
ExtraPayloads(cls) ==
    IF cls = "Student" THEN {Merge(Base(cls), [nickname |-> "x"])} ELSE {}

Payloads(cls) ==
    FullPayloads(cls) \cup InvalidPayloads(cls) \cup PartialPayloads(cls)
        \cup ExtraPayloads(cls)

\* The request bodies, the path keys and the valid bodies per class,
\* tabulated once.
PayloadSet == [cls \in Resources |-> Payloads(cls)]

KeySet == [cls \in Resources |-> Keys(cls)]

ValidBodies ==
    [cls \in Resources |-> {p \in PayloadSet[cls] : BodyErrors(cls, p) = {}}]

\* FastAPI builds the body parameter before it calls the handler: the
\* request is answered 422 unless the body validates.
BodyValid(cls, payload) == payload \in ValidBodies[cls]

\* The <<offset, limit>> pairs of the list requests.
ListParams == {<<0, 100>>, <<0, 150>>, <<0, -1>>, <<1, 1>>}

TotalRows(d) ==
    Cardinality(d["Student"]) + Cardinality(d["Teacher"]) + Cardinality(d["Course"])

(***************************************************************************)
(* The request handlers.  One action answers one request: it records the   *)
(* request in req, the answer in resp, and the table afterwards in db.     *)
(***************************************************************************)

Request(op, res, key, payload, offset, limit) ==
    [op |-> op, res |-> res, key |-> key, payload |-> payload,
     offset |-> offset, limit |-> limit]

Respond(status, body) == resp' = [status |-> status, body |-> body]

ConcIdle == UNCHANGED <<pc, found, wkey, acks, removed>>

DateIdle == UNCHANGED <<bd_in, bd_out>>

\* POST /<res>/ : session.add, session.commit, session.refresh, return.
\* 422: the body does not validate.  500: the commit's INSERT raises
\* IntegrityError, which no handler catches.
Create(res, payload) ==
    /\ req' = Request("create", res, NoKey, payload, 0, 0)
    /\ IF ~BodyValid(res, payload)
       THEN Respond(422, None) /\ db' = db
       ELSE IF ~InsertOK(db[res], res, payload)
       THEN Respond(500, "IntegrityError") /\ db' = db
       ELSE /\ TotalRows(db) < MaxRows
            /\ db' = [db EXCEPT ![res] = @ \cup {payload}]
            /\ Respond(200, payload)
    /\ ConcIdle /\ DateIdle

\* GET /<res>/?offset=&limit= : select(cls).offset(offset).limit(limit).
\* The statement has no ORDER BY; the answer is kept by its length.
ReadAll(res, offset, limit) ==
    /\ req' = Request("list", res, NoKey, <<>>, offset, limit)
    /\ IF ~QueryValid(offset, limit)
       THEN Respond(422, None)
       ELSE Respond(200, select_count(Cardinality(db[res]), offset, limit))
    /\ db' = db
    /\ ConcIdle /\ DateIdle

\* GET /<res>/{key}
Read(res, key) ==
    /\ req' = Request("get", res, key, <<>>, 0, 0)
    /\ LET got == session_get(db[res], res, key)
       IN  IF got = {}
           THEN Respond(404, None)
           ELSE \E row \in got : Respond(200, row)
    /\ db' = db
    /\ ConcIdle /\ DateIdle

\* PUT /<res>/{key} : session.get, the setattr loop over
\* dict(exclude_unset=True), session.add, session.commit, session.refresh.
\* 422: the body does not validate (before the handler runs).  500: an
\* assignment's validator raises, or the commit's UPDATE raises
\* IntegrityError.
Update(res, key, payload) ==
    /\ req' = Request("update", res, key, payload, 0, 0)
    /\ IF ~BodyValid(res, payload)
       THEN Respond(422, None) /\ db' = db
       ELSE LET got == session_get(db[res], res, key)
            IN  IF got = {}
                THEN Respond(404, None) /\ db' = db
                ELSE \E db_row \in got :
                        LET set == setattr_loop(res, db_row,
                                                dict_exclude_unset(res, payload), 1)
                        IN  IF ~set.ok
                            THEN Respond(500, "ValidationError") /\ db' = db
                            ELSE IF ~UpdateOK(db[res], res, db_row, set.row)
                            THEN Respond(500, "IntegrityError") /\ db' = db
                            ELSE /\ db' = [db EXCEPT
                                            ![res] = (@ \ {db_row}) \cup {set.row}]
                                 /\ Respond(200, set.row)
    /\ ConcIdle /\ DateIdle

\* Mutant of Delete: the instance is not looked up first, and a DELETE
\* that matches no row is answered like one that matches.
Delete_NoLookup(res, key) ==
    /\ req' = Request("delete", res, key, <<>>, 0, 0)
    /\ db' = [db EXCEPT ![res] = sql_delete(@, res, key)]
    /\ Respond(200, "ok")
    /\ ConcIdle /\ DateIdle

\* DELETE /<res>/{key} : session.get, session.delete, session.commit.
Delete(res, key) ==
    /\ req' = Request("delete", res, key, <<>>, 0, 0)
    /\ LET got == session_get(db[res], res, key)
       IN  IF got = {}
           THEN Respond(404, None) /\ db' = db
           ELSE /\ db' = [db EXCEPT ![res] = sql_delete(@, res, key)]
                /\ Respond(200, "ok")
    /\ ConcIdle /\ DateIdle

create_student == \E p \in PayloadSet["Student"] : Create("Student", p)

read_students == \E q \in ListParams : ReadAll("Student", q[1], q[2])

read_student == \E k \in KeySet["Student"] : Read("Student", k)

update_student ==
    \E k \in KeySet["Student"], p \in PayloadSet["Student"] : Update("Student", k, p)

delete_student == \E k \in KeySet["Student"] : Delete("Student", k)

create_teacher == \E p \in PayloadSet["Teacher"] : Create("Teacher", p)

read_teachers == \E q \in ListParams : ReadAll("Teacher", q[1], q[2])

read_teacher == \E k \in KeySet["Teacher"] : Read("Teacher", k)

update_teacher ==
    \E k \in KeySet["Teacher"], p \in PayloadSet["Teacher"] : Update("Teacher", k, p)

delete_teacher == \E k \in KeySet["Teacher"] : Delete("Teacher", k)

create_course == \E p \in PayloadSet["Course"] : Create("Course", p)

read_courses == \E q \in ListParams : ReadAll("Course", q[1], q[2])

read_course == \E k \in KeySet["Course"] : Read("Course", k)

update_course ==
    \E k \in KeySet["Course"], p \in PayloadSet["Course"] : Update("Course", k, p)

delete_course == \E k \in KeySet["Course"] : Delete("Course", k)

(***************************************************************************)
(* Spec: the requests answered one at a time                               *)
(***************************************************************************)

\* create_db_and_tables on a fresh database.db: three empty tables.
EmptyDb == [r \in Resources |-> {}]

NoRequest == Request("none", None, NoKey, <<>>, 0, 0)

Workers == {1, 2}

InitRest ==
    /\ req = NoRequest
    /\ resp = [status |-> 0, body |-> None]
    /\ gone = {}
    /\ pc = [w \in Workers |-> "idle"]
    /\ found = [w \in Workers |-> {}]
    /\ wkey = [w \in Workers |-> NoKey]
    /\ acks = 0
    /\ removed = 0
    /\ bd_in = <<>>
    /\ bd_out = "pending"

Init == db = EmptyDb /\ InitRest

\* The history of deletions after a step: a DELETE answered {"ok": true}
\* adds its key, a create answered 200 removes the key it created.
GoneAfter ==
    IF req'.op = "delete" /\ resp'.status = 200
    THEN gone \cup {<<req'.res, req'.key>>}
    ELSE IF req'.op = "create" /\ resp'.status = 200
    THEN gone \ {<<req'.res, req'.payload[PK(req'.res)]>>}
    ELSE gone

\* Every handler; the history of deletions is not kept.
Next ==
    \/ create_student /\ gone' = gone
    \/ read_students /\ gone' = gone
    \/ read_student /\ gone' = gone
    \/ update_student /\ gone' = gone
    \/ delete_student /\ gone' = gone
    \/ create_teacher /\ gone' = gone
    \/ read_teachers /\ gone' = gone
    \/ read_teacher /\ gone' = gone
    \/ update_teacher /\ gone' = gone
    \/ delete_teacher /\ gone' = gone
    \/ create_course /\ gone' = gone
    \/ read_courses /\ gone' = gone
    \/ read_course /\ gone' = gone
    \/ update_course /\ gone' = gone
    \/ delete_course /\ gone' = gone

Spec == Init /\ [][Next]_vars

\* The student handlers alone, with the history of deletions kept.
NextStudents ==
    \/ create_student /\ gone' = GoneAfter
    \/ read_students /\ gone' = GoneAfter
    \/ read_student /\ gone' = GoneAfter
    \/ update_student /\ gone' = GoneAfter
    \/ delete_student /\ gone' = GoneAfter

SpecStudents == Init /\ [][NextStudents]_vars

(***************************************************************************)
(* SpecList: the list handlers over a teachers table of up to ListMaxRows  *)
(* rows (the state after that many successful POST /teachers/).            *)
(***************************************************************************)

TeacherRows(n) == {Sample("Teacher", KeyOf("Teacher", i), 1) : i \in 1..n}

InitList ==
    /\ \E n \in 0..ListMaxRows : db = [EmptyDb EXCEPT !["Teacher"] = TeacherRows(n)]
    /\ InitRest

NextList ==
    \/ read_students /\ gone' = gone
    \/ read_teachers /\ gone' = gone
    \/ read_courses /\ gone' = gone

SpecList == InitList /\ [][NextList]_vars

(***************************************************************************)
(* SpecConc: DELETE /students/{stid} served by two threads of the          *)
(* threadpool, each with its own Session, interleaved at the statements    *)
(* the sessions send to the database.                                      *)
(***************************************************************************)

\* student = session.get(Student, stid); if not student: raise 404.
\* The SELECT runs outside any database transaction: pysqlite opens one
\* only before the first INSERT, UPDATE or DELETE of a session.
delete_student_get(w) ==
    /\ pc[w] = "idle"
    /\ acks + Cardinality({v \in Workers : pc[v] = "got"}) < MaxDeletes
    /\ \E k \in KeySet["Student"] :
        LET got == session_get(db["Student"], "Student", k)
        IN  /\ req' = Request("delete", "Student", k, <<>>, 0, 0)
            /\ IF got = {}
               THEN /\ Respond(404, None)
                    /\ UNCHANGED <<pc, found, wkey>>
               ELSE /\ pc' = [pc EXCEPT ![w] = "got"]
                    /\ found' = [found EXCEPT ![w] = got]
                    /\ wkey' = [wkey EXCEPT ![w] = k]
                    /\ resp' = resp
    /\ UNCHANGED <<db, gone, acks, removed>>
    /\ DateIdle

\* session.delete(student); session.commit(); return {"ok": True}.
\* The flush sends DELETE ... WHERE stid = <the key of the instance>; when
\* it matches no row SQLAlchemy only warns, and the commit succeeds.
delete_student_commit(w) ==
    /\ pc[w] = "got"
    /\ \E row \in found[w] :
        /\ removed' = removed + delete_rowcount(db["Student"], "Student", row["stid"])
        /\ db' = [db EXCEPT !["Student"] = sql_delete(@, "Student", row["stid"])]
    /\ acks' = acks + 1
    /\ req' = Request("delete", "Student", wkey[w], <<>>, 0, 0)
    /\ Respond(200, "ok")
    /\ pc' = [pc EXCEPT ![w] = "idle"]
    /\ found' = [found EXCEPT ![w] = {}]
    /\ wkey' = [wkey EXCEPT ![w] = NoKey]
    /\ gone' = gone
    /\ DateIdle

NextConc ==
    \/ create_student /\ gone' = gone
    \/ \E w \in Workers : delete_student_get(w)
    \/ \E w \in Workers : delete_student_commit(w)

SpecConc == Init /\ [][NextConc]_vars

(***************************************************************************)
(* SpecDate: Person.validate_birth_date applied to one input               *)
(***************************************************************************)

YearPieces ==
    {Dec(1299, 4), Dec(1300, 4), Dec(1400, 4), Dec(1402, 4), Dec(99, 2),
     <<97, 98, 99, 100>>, <<>>, <<1777, 1780, 1776, 1776>>, <<32>> \o Dec(1380, 4)}

MonthPieces == {Dec(0, 2), Dec(1, 2), Dec(12, 2), Dec(13, 2), <<120>>, <<55>>}

DayPieces == {Dec(0, 2), Dec(1, 2), Dec(31, 2), Dec(32, 2), <<49, 53, 10>>}

\* "/" and "-"
Separators == {47, 45}

BirthDateInputs ==
    {y \o <<sep>> \o m \o <<sep>> \o d :
        y \in YearPieces, m \in MonthPieces, d \in DayPieces, sep \in Separators}
    \cup {y \o <<47>> \o m : y \in YearPieces, m \in MonthPieces}
    \cup {y \o <<47>> \o m \o <<47>> \o d \o <<47>> \o d :
            y \in YearPieces, m \in MonthPieces, d \in DayPieces}

InitDate ==
    /\ db = EmptyDb
    /\ req = NoRequest
    /\ resp = [status |-> 0, body |-> None]
    /\ gone = {}
    /\ pc = [w \in Workers |-> "idle"]
    /\ found = [w \in Workers |-> {}]
    /\ wkey = [w \in Workers |-> NoKey]
    /\ acks = 0
    /\ removed = 0
    /\ bd_in \in BirthDateInputs
    /\ bd_out = "pending"

call_validate_birth_date ==
    /\ bd_out = "pending"
    /\ bd_out' = validate_birth_date(bd_in)
    /\ UNCHANGED <<db, req, resp, gone, pc, found, wkey, acks, removed, bd_in>>

NextDate == call_validate_birth_date

SpecDate == InitDate /\ [][NextDate]_vars

(***************************************************************************)
(* The claims                                                              *)
(***************************************************************************)

\* The primary keys a table holds.
PKs(d, cls) == {row[PK(cls)] : row \in d[cls]}

KeyPresent(d, cls, key) == session_get(d[cls], cls, key) # {}

\* C1 (as claimed): an update request never changes the primary key of a
\* stored record, whatever key its payload carries: the set of primary
\* keys of every table is the same after an update as before.
C1_UpdateKeepsPrimaryKeys ==
    [][req'.op = "update" => \A cls \in Resources : PKs(db', cls) = PKs(db, cls)]_vars

IsPartialFor(cls, payload, row) ==
    /\ DOMAIN payload # {}
    /\ DOMAIN payload \subseteq FieldSet(cls)
    /\ DOMAIN payload # FieldSet(cls)
    /\ \A f \in DOMAIN payload :
            FieldOK(cls, f, payload[f], [g \in DOMAIN row \ {f} |-> row[g]])

UniqueKeys(d) ==
    \A cls \in Resources : \A r1, r2 \in d[cls] :
        r1[PK(cls)] = r2[PK(cls)] => r1 = r2

\* C4: a create whose key is already in the table leaves the store as it
\* was, one record per key, and a body that validates is refused with the
\* storage's primary-key conflict (an IntegrityError no handler catches).
C4_CreateConflict ==
    [][(/\ req'.op = "create"
        /\ PK(req'.res) \in DOMAIN req'.payload
        /\ KeyPresent(db, req'.res, req'.payload[PK(req'.res)]))
       => /\ db' = db
          /\ UniqueKeys(db')
          /\ resp'.status # 200
          /\ BodyValid(req'.res, req'.payload)
                => resp'.status = 500 /\ resp'.body = "IntegrityError"]_vars

\* C4's case: a valid create has been refused for its key, and the record
\* stored under that key is another one than the body.
C4_Witness ==
    /\ req.op = "create"
    /\ resp.status = 500
    /\ resp.body = "IntegrityError"
    /\ req.payload \notin db[req.res]
    /\ KeyPresent(db, req.res, req.payload[PK(req.res)])

\* C5 (as claimed): a DELETE on a stored key answers {"ok": true} and
\* removes the record, and while the key is in the history of deletions
\* (no create for it has succeeded since) every GET and DELETE on it
\* answers 404.
C5_DeletedStaysNotFound ==
    [][/\ (req'.op = "delete" /\ KeyPresent(db, req'.res, req'.key))
            => /\ resp'.status = 200
               /\ resp'.body = "ok"
               /\ ~KeyPresent(db', req'.res, req'.key)
       /\ (req'.op \in {"get", "delete"} /\ <<req'.res, req'.key>> \in gone)
            => resp'.status = 404]_vars

\* C6 (as claimed): a list request is rejected or returns at most 100
\* records.
C6_ListCeiling ==
    req.op = "list" => resp.status = 422 \/ resp.body <= 100

\* C7 (as claimed): a get, update or delete on an absent key answers 404
\* and leaves the store unchanged.
C7_AbsentKeyNotFound ==
    [][(/\ req'.op \in {"get", "update", "delete"}
        /\ ~KeyPresent(db, req'.res, req'.key))
       => resp'.status = 404 /\ db' = db]_vars

\* C7 (amended): a get or delete on an absent key answers 404; an update
\* on an absent key answers 404 when its body validates and 422 when it
\* does not; none of them changes the store (no upsert).
C7_AbsentKeyNotFoundOrInvalid ==
    [][(/\ req'.op \in {"get", "update", "delete"}
        /\ ~KeyPresent(db, req'.res, req'.key))
       => /\ db' = db
          /\ resp'.status =
                IF req'.op = "update" /\ ~BodyValid(req'.res, req'.payload)
                THEN 422 ELSE 404]_vars

\* C7's case: an update with a valid body, addressed to an absent key, has
\* been answered 404 and no record stands under that key.
C7_Witness ==
    /\ req.op = "update"
    /\ BodyValid(req.res, req.payload)
    /\ resp.status = 404
    /\ ~KeyPresent(db, req.res, req.key)
    /\ TotalRows(db) > 0

AllDigits(v) == \A i \in 1..Len(v) : IsDigitChar(v[i])

\* The field predicates C8 names, stated on a full record.
C8_RecordOK(cls, row) ==
    /\ row["department"] \in {"fanni_mohandesi", "olum_paye", "eghtesad"}
    /\ cls = "Course" =>
            row["credit"] \in 1..4 /\ Len(row["cid"]) = 5 /\ AllDigits(row["cid"])
    /\ cls = "Teacher" => Len(row["lid"]) = 6 /\ AllDigits(row["lid"])
    /\ cls = "Student" =>
            /\ Len(row["stid"]) = 11
            /\ AllDigits(row["stid"])
            /\ SubSeq(row["stid"], 1, 9) = <<52, 48, 51, 49, 49, 52, 49, 53, 48>>

\* C8: a create or update whose (full) body fails one of these predicates
\* leaves the store unchanged, and every stored record is a full record
\* that satisfies them.
C8_ValidationBeforeMutation ==
    [][/\ (/\ req'.op \in {"create", "update"}
           /\ DOMAIN req'.payload = FieldSet(req'.res)
           /\ ~C8_RecordOK(req'.res, req'.payload))
            => db' = db
       /\ \A cls \in Resources : \A row \in db'[cls] :
            DOMAIN row = FieldSet(cls) /\ C8_RecordOK(cls, row)]_vars

\* C8's case: an update of a stored course with credit 5 has been refused.
C8_Witness ==
    /\ req.op = "update"
    /\ req.res = "Course"
    /\ "credit" \in DOMAIN req.payload
    /\ req.payload["credit"] = 5
    /\ KeyPresent(db, "Course", req.key)
    /\ resp.status = 422

\* C9 (as claimed): an input of three integers out of range is refused
\* with the range message, an input that does not parse with the format
\* message.
C9_RangeAndFormatDistinct ==
    bd_out # "pending" =>
        /\ birth_date_try(bd_in) = "range" => bd_out = "range_error"
        /\ birth_date_try(bd_in) \in {"int", "unpack"} => bd_out = "format_error"

\* C10 (as claimed): every {"ok": true} of a DELETE stands for a row its
\* own DELETE statement removed.
C10_AckIsRemoval == acks <= removed

====
